---------------------------- MODULE Spec2Model ----------------------------
(***************************************************************************)
(* Model of the IDT CRISPR Slack bot (src/bot.py): the /crispr slash       *)
(* command handler, the token cache of IDTClient and the result renderers. *)
(*                                                                         *)
(* A text is a sequence of one-character strings, so that the string       *)
(* operations of the handler (strip, split, rsplit, lower, upper) are      *)
(* computed character by character as Python computes them.                *)
(***************************************************************************)
EXTENDS Integers, Sequences, FiniteSets, TLC

(***************************************************************************)
(* Characters and Python string operations                                 *)
(***************************************************************************)
LowerChars ==
  << "a","b","c","d","e","f","g","h","i","j","k","l","m",
     "n","o","p","q","r","s","t","u","v","w","x","y","z" >>

UpperChars ==
  << "A","B","C","D","E","F","G","H","I","J","K","L","M",
     "N","O","P","Q","R","S","T","U","V","W","X","Y","Z" >>

\* str.isspace() for the characters a text is built from
Whitespace == { " ", "\n", "\t" }

IsSpace(c) == c \in Whitespace

\* str.lower() of one character
LowerChar(c) ==
  IF \E i \in 1..Len(UpperChars) : UpperChars[i] = c
    THEN LowerChars[CHOOSE i \in 1..Len(UpperChars) : UpperChars[i] = c]
    ELSE c

\* str.upper() of one character
UpperChar(c) ==
  IF \E i \in 1..Len(LowerChars) : LowerChars[i] = c
    THEN UpperChars[CHOOSE i \in 1..Len(LowerChars) : LowerChars[i] = c]
    ELSE c

\* str.lower()
Lower(s) == [i \in 1..Len(s) |-> LowerChar(s[i])]

\* str.upper()
Upper(s) == [i \in 1..Len(s) |-> UpperChar(s[i])]

\* least index >= i of a non-whitespace character of s, Len(s)+1 if none
FirstNonSpaceFrom(s, i) ==
  CHOOSE j \in i..(Len(s) + 1) :
    /\ (j = Len(s) + 1 \/ ~IsSpace(s[j]))
    /\ \A k \in i..(j - 1) : IsSpace(s[k])

\* least index >= i of a whitespace character of s, Len(s)+1 if none
FirstSpaceFrom(s, i) ==
  CHOOSE j \in i..(Len(s) + 1) :
    /\ (j = Len(s) + 1 \/ IsSpace(s[j]))
    /\ \A k \in i..(j - 1) : ~IsSpace(s[k])

\* greatest index <= i of a non-whitespace character of s, 0 if none
LastNonSpaceUpTo(s, i) ==
  CHOOSE j \in 0..i :
    /\ (j = 0 \/ ~IsSpace(s[j]))
    /\ \A k \in (j + 1)..i : IsSpace(s[k])

\* greatest index <= i of a whitespace character of s, 0 if none
LastSpaceUpTo(s, i) ==
  CHOOSE j \in 0..i :
    /\ (j = 0 \/ IsSpace(s[j]))
    /\ \A k \in (j + 1)..i : ~IsSpace(s[k])

\* str.strip()
Strip(s) ==
  LET a == FirstNonSpaceFrom(s, 1)
      b == LastNonSpaceUpTo(s, Len(s))
  IN  IF a > Len(s) THEN << >> ELSE SubSeq(s, a, b)

\* str.split(None, 2): at most two splits on runs of whitespace; the rest of
\* the text, leading whitespace removed, is the third part
Split2(s) ==
  LET a1 == FirstNonSpaceFrom(s, 1)
      b1 == FirstSpaceFrom(s, a1)
      a2 == FirstNonSpaceFrom(s, b1)
      b2 == FirstSpaceFrom(s, a2)
      a3 == FirstNonSpaceFrom(s, b2)
  IN  IF a1 > Len(s) THEN << >>
      ELSE IF a2 > Len(s) THEN << SubSeq(s, a1, b1 - 1) >>
      ELSE IF a3 > Len(s) THEN << SubSeq(s, a1, b1 - 1), SubSeq(s, a2, b2 - 1) >>
      ELSE << SubSeq(s, a1, b1 - 1), SubSeq(s, a2, b2 - 1), SubSeq(s, a3, Len(s)) >>

\* str.rsplit(None, 1): the last whitespace-delimited token is split off; the
\* head keeps its leading whitespace and loses its trailing whitespace
RSplit1(s) ==
  LET e == LastNonSpaceUpTo(s, Len(s))
      b == LastSpaceUpTo(s, e)
      h == LastNonSpaceUpTo(s, b)
  IN  IF e = 0 THEN << >>
      ELSE IF h = 0 THEN << SubSeq(s, b + 1, e) >>
      ELSE << SubSeq(s, 1, h), SubSeq(s, b + 1, e) >>

\* least index >= i of a newline of s, Len(s)+1 if none
FirstNewlineFrom(s, i) ==
  CHOOSE j \in i..(Len(s) + 1) :
    /\ (j = Len(s) + 1 \/ s[j] = "\n")
    /\ \A k \in i..(j - 1) : s[k] # "\n"

RECURSIVE SplitLinesFrom(_, _)
SplitLinesFrom(s, i) ==
  LET j == FirstNewlineFrom(s, i)
  IN  << SubSeq(s, i, j - 1) >> \o
      (IF j > Len(s) THEN << >> ELSE SplitLinesFrom(s, j + 1))

\* str.split("\n")
SplitLines(s) == SplitLinesFrom(s, 1)

\* str.startswith(">")
StartsWithGt(s) == Len(s) >= 1 /\ s[1] = ">"

(***************************************************************************)
(* Configuration                                                           *)
(***************************************************************************)
W_human == << "h","u","m","a","n" >>
W_mouse == << "m","o","u","s","e" >>
W_rat == << "r","a","t" >>
W_zebrafish == << "z","e","b","r","a","f","i","s","h" >>
W_celegans == << "c","e","l","e","g","a","n","s" >>
W_help == << "h","e","l","p" >>
W_design == << "d","e","s","i","g","n" >>
W_check == << "c","h","e","c","k" >>
W_predesign == << "p","r","e","d","e","s","i","g","n" >>

SUPPORTED_SPECIES == << W_human, W_mouse, W_rat, W_zebrafish, W_celegans >>

\* `x in SUPPORTED_SPECIES`
IsSupportedSpecies(w) == \E i \in 1..Len(SUPPORTED_SPECIES) : SUPPORTED_SPECIES[i] = w


(***************************************************************************)
(* Program constants                                                       *)
(***************************************************************************)
MIN_DESIGN_LEN == 23

MAX_DESIGN_LEN == 1000

CHECK_LEN == 20

Bases == { "A", "C", "G", "T" }

(***************************************************************************)
(* Command parsing, as handle_crispr_command does it inline                *)
(***************************************************************************)
\* text = (command.get("text") or "").strip()
StripText(raw) == Strip(raw)

\* not text or text.lower() == "help"
IsHelpText(text) == text = << >> \/ Lower(text) = W_help

\* parts = text.split(None, 2)
Parts(text) == Split2(text)

\* subcommand = parts[0].lower()
Subcommand(parts) == Lower(parts[1])

\* remaining = parts[1] if len(parts) == 2 else parts[1] + " " + parts[2]
DesignRemaining(parts) ==
  IF Len(parts) = 2 THEN parts[2] ELSE parts[2] \o << " " >> \o parts[3]

\* design: the last word of the remaining text is the species when it names one
DesignArgs(parts) ==
  LET remaining == DesignRemaining(parts)
      tokens    == RSplit1(remaining)
  IN  IF Len(tokens) = 2 /\ IsSupportedSpecies(Lower(tokens[2]))
        THEN [sequence |-> tokens[1], species |-> Lower(tokens[2])]
        ELSE [sequence |-> remaining, species |-> W_human]

RECURSIVE JoinPureLines(_)
JoinPureLines(lines) ==
  IF lines = << >> THEN << >>
  ELSE (IF StartsWithGt(Head(lines)) THEN << >> ELSE Strip(Head(lines)))
         \o JoinPureLines(Tail(lines))

\* pure_seq: the lines of the stripped sequence that do not start with ">",
\* each stripped, joined
PureSeq(sequence) == JoinPureLines(SplitLines(Strip(sequence)))

\* the design length check passes
DesignLengthOk(pure_seq) ==
  ~(Len(pure_seq) < MIN_DESIGN_LEN \/ Len(pure_seq) > MAX_DESIGN_LEN)

\* faulty variant: a third part that names no species is kept in the sequence
CheckArgs_KeepRest(parts) ==
  IF Len(parts) = 3 /\ IsSupportedSpecies(Lower(parts[3]))
    THEN [sequence |-> Upper(Strip(parts[2])), species |-> Lower(parts[3])]
  ELSE IF Len(parts) = 3
    THEN [sequence |-> Upper(Strip(parts[2] \o << " " >> \o parts[3])), species |-> W_human]
  ELSE [sequence |-> Upper(Strip(parts[2])), species |-> W_human]

\* check: sequence and species from parts
CheckArgs(parts) ==
  IF Len(parts) = 3 /\ IsSupportedSpecies(Lower(parts[3]))
    THEN [sequence |-> Upper(Strip(parts[2])), species |-> Lower(parts[3])]
  ELSE IF Len(parts) = 2
    THEN LET tokens == RSplit1(parts[2])
         IN  IF Len(tokens) = 2 /\ IsSupportedSpecies(Lower(tokens[2]))
               THEN [sequence |-> Upper(Strip(tokens[1])), species |-> Lower(tokens[2])]
               ELSE [sequence |-> Upper(Strip(parts[2])), species |-> W_human]
  ELSE [sequence |-> Upper(Strip(parts[2])), species |-> W_human]

\* faulty variant: only the length is checked
CheckFormatOk_LengthOnly(sequence) == Len(sequence) = CHECK_LEN

\* the 20bp check passes
CheckFormatOk(sequence) ==
  ~(Len(sequence) # CHECK_LEN \/ ~(\A i \in 1..Len(sequence) : sequence[i] \in Bases))

\* predesign: gene and species from parts
PredesignArgs(parts) ==
  [sequence |-> Upper(Strip(parts[2])),
   species  |-> IF Len(parts) = 3 /\ IsSupportedSpecies(Lower(parts[3]))
                  THEN Lower(parts[3]) ELSE W_human]

NoArgs == [sequence |-> << >>, species |-> << >>]

\* the handler stops after one private message
Local(kind, got) ==
  [remote |-> FALSE, kind |-> kind, op |-> "none", args |-> NoArgs, got |-> got]

\* the handler goes on to the remote call `op`
Remote(op, args, got) ==
  [remote |-> TRUE, kind |-> "progress", op |-> op, args |-> args, got |-> got]

PlanDesign(parts) ==
  IF Len(parts) < 2 THEN Local("error_missing", 0)
  ELSE LET args == DesignArgs(parts)
           pure_seq == PureSeq(args.sequence)
       IN  IF ~DesignLengthOk(pure_seq)
             THEN Local("error_length", Len(pure_seq))
             ELSE Remote("design", args, Len(pure_seq))

PlanCheck(parts) ==
  IF Len(parts) < 2 THEN Local("error_missing", 0)
  ELSE LET args == CheckArgs(parts)
       IN  IF ~CheckFormatOk(args.sequence)
             THEN Local("error_format", Len(args.sequence))
             ELSE Remote("check", args, Len(args.sequence))

PlanPredesign(parts) ==
  IF Len(parts) < 2 THEN Local("error_missing", 0)
  ELSE Remote("predesign", PredesignArgs(parts), 0)

\* The branch the handler takes on the raw command text, up to the point where
\* it either returns or calls the IDT client
Plan(raw) ==
  LET text == StripText(raw)
  IN  IF IsHelpText(text) THEN Local("help", 0)
      ELSE LET parts == Parts(text)
               subcommand == Subcommand(parts)
           IN  IF subcommand = W_design THEN PlanDesign(parts)
               ELSE IF subcommand = W_check THEN PlanCheck(parts)
               ELSE IF subcommand = W_predesign THEN PlanPredesign(parts)
               ELSE Local("error_unknown", 0)

(***************************************************************************)
(* Result renderers                                                        *)
(***************************************************************************)
MAX_ENTRIES == 10

\* s[:n]
Take(s, n) == SubSeq(s, 1, IF Len(s) < n THEN Len(s) ELSE n)

\* One Slack block.  role tells the blocks of a message apart; idx is the
\* number enumerate() gives an entry (0 where the renderer does not number);
\* rec is the payload record the entry was rendered from.
Block(type, role, idx, rec) == [type |-> type, role |-> role, idx |-> idx, rec |-> rec]

NoRecord == [id |-> 0]

HeadBlocks ==
  << Block("header", "title", 0, NoRecord),
     Block("context", "context", 0, NoRecord),
     Block("divider", "divider", 0, NoRecord) >>

NoticeBlock == Block("section", "notice", 0, NoRecord)

FootBlocks ==
  << Block("divider", "divider", 0, NoRecord),
     Block("context", "footer", 0, NoRecord) >>

\* data if isinstance(data, list) else data.get("Guides", data.get("Results", []))
GuidesOf(data) ==
  IF data.shape \in { "list", "Guides", "Results" } THEN data.records ELSE << >>

\* data if isinstance(data, list) else data.get("Results", [data])
ResultsOf(data) ==
  IF data.shape \in { "list", "Results" } THEN data.records ELSE << data.self >>

\* for i, guide in enumerate(guides[:10], 1)
GuideEntries(guides) ==
  LET shown == Take(guides, MAX_ENTRIES)
  IN  [i \in 1..Len(shown) |-> Block("section", "entry", i, shown[i])]

\* dict.get(key, default)
Get(d, key, default) == IF key \in DOMAIN d THEN d[key] ELSE default

\* the default "—" of the score lookups
Dash == [kind |-> "str", val |-> 0]

\* result.get("OnTargetScore", result.get("onTargetScore", "—"))
OnScore(res) == Get(res, "OnTargetScore", Get(res, "onTargetScore", Dash))

\* result.get("OffTargetScore", result.get("offTargetScore", "—"))
OffScore(res) == Get(res, "OffTargetScore", Get(res, "offTargetScore", Dash))

\* isinstance(score, (int, float)); bool is a subclass of int
IsNumber(score) == score.kind \in { "int", "float", "bool" }

ON_TARGET_MIN == 60

OFF_TARGET_MIN == 50

GREEN_MIN == 60

YELLOW_MIN == 40

\* the colour in front of a score
Emoji(score) ==
  IF IsNumber(score) /\ score.val >= GREEN_MIN THEN "green"
  ELSE IF IsNumber(score) /\ score.val >= YELLOW_MIN THEN "yellow"
  ELSE "red"

\* faulty variant: the off-target score is not looked at
Verdict_OnTargetOnly(on_score, off_score) ==
  IF IsNumber(on_score) /\ on_score.val >= ON_TARGET_MIN
    THEN "recommended" ELSE "caution"

\* the verdict line of a checker entry
Verdict(on_score, off_score) ==
  IF /\ IsNumber(on_score) /\ on_score.val >= ON_TARGET_MIN
     /\ IsNumber(off_score) /\ off_score.val >= OFF_TARGET_MIN
    THEN "recommended" ELSE "caution"

\* the section block of one checker result
ResultBlock(res) ==
  [type |-> "section", role |-> "entry", idx |-> 0, rec |-> res,
   on_emoji |-> Emoji(OnScore(res)), on_score |-> OnScore(res),
   off_emoji |-> Emoji(OffScore(res)), off_score |-> OffScore(res),
   verdict |-> Verdict(OnScore(res), OffScore(res))]

\* for result in results
ResultEntries(results) ==
  [i \in 1..Len(results) |-> ResultBlock(results[i])]

format_custom_results(data) ==
  LET guides == GuidesOf(data)
  IN  IF guides = << >> THEN Append(HeadBlocks, NoticeBlock)
      ELSE HeadBlocks \o GuideEntries(guides) \o FootBlocks

format_checker_results(data) ==
  LET results == ResultsOf(data)
  IN  IF results = << >> THEN Append(HeadBlocks, NoticeBlock)
      ELSE HeadBlocks \o ResultEntries(results) \o FootBlocks

format_predesign_results(data) ==
  LET guides == GuidesOf(data)
  IN  IF guides = << >> THEN Append(HeadBlocks, NoticeBlock)
      ELSE HeadBlocks \o GuideEntries(guides) \o FootBlocks

\* the renderer the handler calls on the result of operation op
Render(op, data) ==
  CASE op = "design"    -> format_custom_results(data)
    [] op = "check"     -> format_checker_results(data)
    [] op = "predesign" -> format_predesign_results(data)
    [] OTHER            -> << >>

(***************************************************************************)
(* Messages handed to respond()                                            *)
(***************************************************************************)
Msg(kind, vis, got, blocks) == [kind |-> kind, vis |-> vis, got |-> got, blocks |-> blocks]

\* respond(blocks=format_help(), response_type="ephemeral")
HelpMsg == Msg("help", "ephemeral", 0, << >>)

\* faulty variant: error messages broadcast to the channel
ErrorMsg_InChannel(kind, got) == Msg(kind, "in_channel", got, << >>)

\* respond(blocks=format_error(...), response_type="ephemeral")
ErrorMsg(kind, got) == Msg(kind, "ephemeral", got, << >>)

\* respond(text="... in progress ...", response_type="in_channel")
ProgressMsg(got) == Msg("progress", "in_channel", got, << >>)

\* respond(blocks=format_..._results(...), response_type="in_channel")
ResultMsg(blocks) == Msg("result", "in_channel", 0, blocks)

\* the first respond() of a handling
FirstMsg(plan) ==
  IF plan.kind = "help" THEN HelpMsg
  ELSE IF plan.remote THEN ProgressMsg(plan.got)
  ELSE ErrorMsg(plan.kind, plan.got)

\* faulty variant: the `return` after a local message is missing
AfterFirstRespond_NoReturn(plan) == "get_token"

\* after the first respond(): `return` on the local branches, the IDT client
\* call on the others
AfterFirstRespond(plan) == IF plan.remote THEN "get_token" ELSE "done"

Quote == << "\"" >>

\* the JSON text of a string without quotes or backslashes
JsonStr(s) == Quote \o s \o Quote

\* the JSON text of an object of one pair of such strings
JsonObj(k, v) == << "{" >> \o JsonStr(k) \o << ":" >> \o JsonStr(v) \o << "}" >>

IsJsonStr(s) ==
  /\ Len(s) >= 2
  /\ s[1] = "\"" /\ s[Len(s)] = "\""
  /\ \A i \in 2..(Len(s) - 1) : s[i] \notin { "\"", "\\" }

\* the position of the quote that closes the string opening at position 2
ClosingQuote(s) ==
  CHOOSE i \in 3..Len(s) : s[i] = "\"" /\ \A j \in 3..(i - 1) : s[j] # "\""

IsJsonObj(s) ==
  /\ Len(s) >= 7
  /\ s[1] = "{" /\ s[2] = "\"" /\ s[Len(s)] = "}"
  /\ \E i \in 3..Len(s) : s[i] = "\""
  /\ LET q == ClosingQuote(s)
     IN  /\ q + 1 < Len(s) /\ s[q + 1] = ":"
         /\ IsJsonStr(SubSeq(s, 2, q))
         /\ IsJsonStr(SubSeq(s, q + 2, Len(s) - 1))

\* response.json() on the bodies the model draws: a string, an object of one
\* pair of strings, or a ValueError (ok = FALSE) for text that is not JSON
Json(s) ==
  IF IsJsonStr(s)
    THEN [ok |-> TRUE, kind |-> "str", key |-> << >>, val |-> SubSeq(s, 2, Len(s) - 1)]
  ELSE IF IsJsonObj(s)
    THEN LET q == ClosingQuote(s)
         IN  [ok |-> TRUE, kind |-> "dict", key |-> SubSeq(s, 3, q - 1),
              val |-> SubSeq(s, q + 3, Len(s) - 2)]
  ELSE [ok |-> FALSE, kind |-> "none", key |-> << >>, val |-> << >>]

\* what an f-string makes of a parsed JSON value: a str as it is, a dict as
\* {'key': 'value'}
PyStr(v) ==
  IF v.kind = "str" THEN v.val
  ELSE << "{", "'" >> \o v.key \o << "'", ":", " ", "'" >> \o v.val \o << "'", "}" >>

EXCERPT_MAX == 200

NoResponse == [status_code |-> 0, text |-> << >>]

\* the exceptions that reach the handler's except clauses
HTTPError(resp) == [cls |-> "HTTPError", response |-> resp]

ConnectionError == [cls |-> "ConnectionError", response |-> NoResponse]

OtherError == [cls |-> "Other", response |-> NoResponse]

NoExc == [cls |-> "none", response |-> NoResponse]

\* `body` of the HTTPError clause: the parsed JSON of the response, or the
\* first 200 characters of its text when it is not JSON (raise_for_status
\* always attaches the response)
HttpErrorBody(resp) ==
  LET j == Json(resp.text)
  IN  IF j.ok THEN PyStr(j) ELSE Take(resp.text, EXCERPT_MAX)

\* format_error(f"IDT API returned HTTP {status}. ...\n`{body}`")
HttpErrorBlock(resp) ==
  [type |-> "section", role |-> "error", status |-> resp.status_code,
   excerpt |-> HttpErrorBody(resp)]

\* the except clauses of the handler: exception -> message
ExceptMsg(exc) ==
  CASE exc.cls = "HTTPError" ->
         [ErrorMsg("error_http", 0) EXCEPT !.blocks = << HttpErrorBlock(exc.response) >>]
    [] exc.cls = "ConnectionError" -> ErrorMsg("error_conn", 0)
    [] OTHER                   -> ErrorMsg("error_unexpected", 0)

(***************************************************************************)
(* Bounds of the model and the inputs drawn from them                      *)
(***************************************************************************)
\* handler threads of the hosting transport
NumThreads == 2

\* tokens the identity endpoint issues in one run
MaxTokens == 2

\* clock ticks in one run
MaxTicks == 2

\* the clock's reading at start (time.time() is far above the initial expiry)
StartTime == 100

\* server TTLs are SAFETY_MARGIN - TtlSlack, SAFETY_MARGIN, SAFETY_MARGIN + TtlSlack
TtlSlack == 1

\* records in a payload handed to a renderer
MaxRecords == 12

\* characters in the longest body of a refused response
MaxBodyLen == 400

AllThreads == 1..NumThreads

SeqThreads == { 1 }

SAFETY_MARGIN == 60

DEFAULT_EXPIRES_IN == 3600

NoToken == 0

INITIAL_EXPIRY == 0

TTLs == { SAFETY_MARGIN - TtlSlack, SAFETY_MARGIN, SAFETY_MARGIN + TtlSlack }

\* the response raise_for_status refuses where its body does not matter
DefaultResponse == [status_code |-> 500, text |-> << >>]

\* what a request can raise: HTTPError with one of `responses`,
\* ConnectionError, or anything else
Failures(responses) ==
  { HTTPError(r) : r \in responses } \cup { ConnectionError, OtherError }

\* n times the character c
Rep(c, n) == [i \in 1..n |-> c]

\* statuses raise_for_status refuses
StatusCodes == { 401, 500 }

BodyLens == { 0, 1, EXCERPT_MAX - 1, EXCERPT_MAX, EXCERPT_MAX + 1, MaxBodyLen }

\* bodies of refused responses: plain text, a JSON string, a JSON object
BodyTexts ==
  { Rep("<", n) : n \in BodyLens }
    \cup { JsonStr(Rep("x", n)) : n \in BodyLens }
    \cup { JsonObj(<< "e", "r", "r" >>, Rep("y", n)) : n \in BodyLens }

Responses == [status_code : StatusCodes, text : BodyTexts]

\* the response of the identity endpoint: a body, or the exception that
\* requests.post / raise_for_status / resp.json() / body["access_token"] raise
TokenOutcomes ==
  [ok : { TRUE }, exc : { NoExc }, ttl_kind : { "num" }, expires_in : TTLs]
    \cup
  [ok : { TRUE }, exc : { NoExc }, ttl_kind : { "absent", "bad" }, expires_in : { 0 }]
    \cup
  [ok : { FALSE }, exc : Failures({ DefaultResponse }),
   ttl_kind : { "none" }, expires_in : { 0 }]

\* a payload of n records, in ascending or descending order of their ids
Payload(shape, n, rev) ==
  [shape   |-> shape,
   records |-> [i \in 1..n |-> [id |-> IF rev THEN n + 1 - i ELSE i]],
   self    |-> NoRecord]

Shapes == { "list", "Guides", "Results", "neither" }

Payloads(shapes, maxn) ==
  { Payload(sh, n, rev) : sh \in shapes, n \in 0..maxn, rev \in BOOLEAN }

NoPayload == Payload("neither", 0, FALSE)

\* numbers around the thresholds of the checker's verdict
ScoreNums ==
  { 0, YELLOW_MIN, OFF_TARGET_MIN - 1, OFF_TARGET_MIN, ON_TARGET_MIN - 1, ON_TARGET_MIN, 100 }

\* JSON values a score field can hold: numbers, a string of digits, null,
\* true
ScoreValues ==
  [kind : { "int", "float" }, val : ScoreNums]
    \cup { [kind |-> "str", val |-> 100], [kind |-> "null", val |-> 0],
           [kind |-> "bool", val |-> 1] }

\* the ways a result record carries one score: not at all, under the
\* capitalised key, under the lower-case key, or under both
ScoreFields(Key, key) ==
  { [id |-> 1] }
    \cup { (Key :> v) @@ [id |-> 1] : v \in ScoreValues }
    \cup { (key :> v) @@ [id |-> 1] : v \in ScoreValues }
    \cup { (Key :> v) @@ (key :> [kind |-> "int", val |-> 100]) @@ [id |-> 1] :
             v \in { [kind |-> "null", val |-> 0], [kind |-> "int", val |-> 0] } }

\* checker result records
ScoreRecords ==
  { on @@ off : on \in ScoreFields("OnTargetScore", "onTargetScore"),
                off \in ScoreFields("OffTargetScore", "offTargetScore") }

\* a checker payload of one result: a list, a dict with "Results", or the
\* result itself
ScorePayloads ==
  { [shape |-> sh, records |-> IF sh = "neither" THEN << >> ELSE << rec >>, self |-> rec] :
      sh \in { "list", "Results", "neither" }, rec \in ScoreRecords }

\* the identity endpoint refuses with one of `responses`
TokenRefusals(responses) ==
  [ok : { FALSE }, exc : { HTTPError(r) : r \in responses },
   ttl_kind : { "none" }, expires_in : { 0 }]

\* the design API refuses with one of `responses`
ApiRefusals(responses) ==
  [ok : { FALSE }, exc : { HTTPError(r) : r \in responses }, data : { NoPayload }]

\* the response of a design API request
ApiOutcomes(payloads) ==
  [ok : { TRUE }, exc : { NoExc }, data : payloads]
    \cup
  [ok : { FALSE }, exc : Failures({ DefaultResponse }), data : { NoPayload }]

(***************************************************************************)
(* Command texts the transport delivers                                    *)
(***************************************************************************)
Sp == << " " >>

Tab == << "\t" >>

NL == << "\n" >>

W_frob == << "f","r","o","b" >>

W_xenopus == << "x","e","n","o","p","u","s" >>

W_gene == << "t","n","n","t","2" >>

Put(s, p, d) == [s EXCEPT ![p] = d]

\* one command of every branch of the handler
Texts ==
  { << >>,
    W_help,
    W_frob \o Sp \o W_gene,
    W_design,
    W_design \o Sp \o Rep("A", MIN_DESIGN_LEN - 1),
    W_design \o Sp \o Rep("A", MIN_DESIGN_LEN),
    W_check \o Sp \o Rep("A", CHECK_LEN - 1),
    W_check \o Sp \o Rep("C", CHECK_LEN),
    W_predesign \o Sp \o W_gene }

ProbeChars == { "A", "C", "G", "T", "a", "c", "g", "t", "N", "n", "U", "-", ">", "1" }

\* sequences for `check`: runs of one base of length 19, 20 and 21 with the
\* first or the last character replaced by a probe character, and runs of a
\* very different length
CheckSeqs ==
  { Put(Rep(c, n), p, d) :
      c \in Bases, n \in (CHECK_LEN - 1)..(CHECK_LEN + 1), p \in { 1, CHECK_LEN - 1 },
      d \in ProbeChars }
    \cup { Rep("G", n) : n \in { 1, 2 * CHECK_LEN } }

SpeciesTokens ==
  { W_human, W_mouse, W_rat, W_zebrafish, W_celegans,
    Upper(W_mouse), << "R", "a", "t" >>, W_xenopus,
    W_mouse \o Sp \o W_xenopus, W_xenopus \o Sp \o W_mouse }

CheckTexts ==
  { w \o Sp \o q : w \in { W_check, Upper(W_check) }, q \in CheckSeqs }
    \cup
  { W_check \o Sp \o Rep(c, n) \o sep \o tok :
      c \in { "A", "t" }, n \in { CHECK_LEN - 1, CHECK_LEN }, sep \in { Sp, Tab },
      tok \in SpeciesTokens }

DesignLens == { MIN_DESIGN_LEN - 1, MIN_DESIGN_LEN, MAX_DESIGN_LEN, MAX_DESIGN_LEN + 1 }

\* sequences for `design` with n bases: bare, under a one-word header line,
\* under a header line of several words, and on two lines
DesignSeqs(n) ==
  { Rep("A", n),
    << ">", "t" >> \o NL \o Rep("C", n),
    << ">", "t", " ", "x", " ", "y" >> \o NL \o Rep("G", n),
    Rep("T", n - 1) \o NL \o << "A" >> }

DesignTexts ==
  { W_design \o Sp \o q \o suffix :
      q \in UNION { DesignSeqs(n) : n \in DesignLens },
      suffix \in { << >>, Sp \o W_mouse, Sp \o Upper(W_rat), Sp \o W_xenopus } }

PredesignTexts ==
  { W_predesign \o Sp \o W_gene \o suffix :
      suffix \in { << >>, Sp \o W_mouse, Sp \o W_xenopus, Sp \o W_mouse \o Sp \o W_gene } }

ParseTexts == CheckTexts \cup DesignTexts \cup PredesignTexts

\* one accepted command per renderer
RenderTexts ==
  { W_design \o Sp \o Rep("A", MIN_DESIGN_LEN),
    W_check \o Sp \o Rep("C", CHECK_LEN),
    W_predesign \o Sp \o W_gene }

\* the accepted `check` command whose results probe the verdict
VerdictTexts == { W_check \o Sp \o Rep("C", CHECK_LEN) }

\* spellings of a word: as it is, upper-cased, capitalised
Spellings(w) == { w, Upper(w), Upper(SubSeq(w, 1, 1)) \o SubSeq(w, 2, Len(w)) }

\* what follows the first token: nothing, white space, or further text
Tails ==
  { << >>, Sp, Sp \o W_gene, Tab \o W_design, NL \o Rep("C", CHECK_LEN),
    Sp \o Rep("A", MIN_DESIGN_LEN) \o Sp \o W_mouse }

HelpLike == { << "h","e","l","p","e","r" >>, << "h","e","l" >>, << "-","h" >>, << "?" >> }

\* texts that probe the dispatch on the first token
DispatchTexts ==
  { pre \o w \o tail :
      pre \in { << >>, Sp },
      w \in UNION { Spellings(v) : v \in { W_help, W_design, W_check, W_predesign, W_frob } }
               \cup HelpLike,
      tail \in Tails }
    \cup { << >>, Sp, Sp \o Tab \o NL }

AllTexts == Texts \cup ParseTexts \cup RenderTexts \cup VerdictTexts \cup DispatchTexts

\* the handler's branch on each command text the transport delivers
PlanOf == [raw \in AllTexts |-> Plan(raw)]

(***************************************************************************)
(* State                                                                   *)
(***************************************************************************)
VARIABLES
  pc,            \* per thread: where its handling of a command stands
  cmd,           \* per thread: the raw text of the command it handles
  req,           \* per thread: the IDT client call the handler makes
  msgs,          \* per thread: the respond() calls of this handling, in order
  calls,         \* per thread: network calls issued during this handling
  result,        \* per thread: the payload the design API answered with
  body,          \* per thread: the identity endpoint's response body (_get_token)
  ret,           \* per thread: what _get_token returned, when, and whether from the cache
  access_token,  \* IDTClient._access_token
  token_expiry,  \* IDTClient._token_expiry
  now,           \* time.time()
  issued,        \* tokens the identity endpoint has issued so far
  stored,        \* the last token stored with its expiry: when, and the TTL it came with
  raised,        \* per thread: the exception that reached the except clauses
  exchange       \* how the last token exchange ended: "none", "ok" or the exception class

vars ==
  << pc, cmd, req, msgs, calls, result, body, ret, access_token, token_expiry, now,
     issued, stored, raised, exchange >>

NoReq == [op |-> "none", args |-> NoArgs]

NoCalls == [token |-> 0, api |-> 0]

NoBody == [access_token |-> NoToken, ttl_kind |-> "none", expires_in |-> 0]

NoRet == [tok |-> NoToken, at |-> 0, cached |-> FALSE]

NoStored == [tok |-> NoToken, at |-> 0, ttl |-> 0]

Init ==
  /\ pc = [t \in AllThreads |-> "idle"]
  /\ cmd = [t \in AllThreads |-> << >>]
  /\ req = [t \in AllThreads |-> NoReq]
  /\ msgs = [t \in AllThreads |-> << >>]
  /\ calls = [t \in AllThreads |-> NoCalls]
  /\ result = [t \in AllThreads |-> NoPayload]
  /\ body = [t \in AllThreads |-> NoBody]
  /\ ret = [t \in AllThreads |-> NoRet]
  /\ access_token = NoToken
  /\ token_expiry = INITIAL_EXPIRY
  /\ now = StartTime
  /\ issued = 0
  /\ stored = NoStored
  /\ raised = [t \in AllThreads |-> NoExc]
  /\ exchange = "none"

(***************************************************************************)
(* Token cache: IDTClient._get_token                                       *)
(***************************************************************************)
\* faulty variant: the cached token is reused without looking at its expiry
CacheValid_NoExpiryCheck == access_token # NoToken

\* self._access_token and time.time() < self._token_expiry
CacheValid == access_token # NoToken /\ now < token_expiry

\* body.get("expires_in", 3600)
ExpiresIn(b) == IF b.ttl_kind = "absent" THEN DEFAULT_EXPIRES_IN ELSE b.expires_in

\* faulty variant: the safety margin is not subtracted
NewExpiry_NoMargin(b) == now + ExpiresIn(b)

\* time.time() + body.get("expires_in", 3600) - 60
NewExpiry(b) == now + ExpiresIn(b) - SAFETY_MARGIN

(***************************************************************************)
(* The handler, one action per stretch between two blocking calls          *)
(***************************************************************************)
\* faulty variant: the exception is swallowed without a message
Raise_Silent(t, exc) ==
  /\ raised' = [raised EXCEPT ![t] = exc]
  /\ msgs' = msgs
  /\ pc' = [pc EXCEPT ![t] = "done"]

\* an exception reaches the handler's except clauses: one private message
Raise(t, exc) ==
  /\ raised' = [raised EXCEPT ![t] = exc]
  /\ msgs' = [msgs EXCEPT ![t] = Append(@, ExceptMsg(exc))]
  /\ pc' = [pc EXCEPT ![t] = "done"]

\* ack(), parsing, validation and the first respond()
Start(t, raw) ==
  LET plan == PlanOf[raw]
  IN  /\ pc[t] = "idle"
      /\ plan.remote =>
           issued + Cardinality({ u \in AllThreads : pc[u] \in { "get_token", "token_post" } })
             < MaxTokens
      /\ cmd' = [cmd EXCEPT ![t] = raw]
      /\ req' = [req EXCEPT ![t] = [op |-> plan.op, args |-> plan.args]]
      /\ msgs' = [msgs EXCEPT ![t] = << FirstMsg(plan) >>]
      /\ pc' = [pc EXCEPT ![t] = AfterFirstRespond(plan)]
      /\ UNCHANGED << calls, result, body, ret, access_token, token_expiry, now, issued,
                      stored, raised, exchange >>

\* _auth_headers -> _get_token: the cached token, or the POST to the identity
\* endpoint; with the cached token the design API request goes out
CheckCache(t) ==
  /\ pc[t] = "get_token"
  /\ IF CacheValid
       THEN /\ ret' = [ret EXCEPT ![t] = [tok |-> access_token, at |-> now, cached |-> TRUE]]
            /\ calls' = [calls EXCEPT ![t].api = @ + 1]
            /\ pc' = [pc EXCEPT ![t] = "api_post"]
       ELSE /\ calls' = [calls EXCEPT ![t].token = @ + 1]
            /\ pc' = [pc EXCEPT ![t] = "token_post"]
            /\ UNCHANGED ret
  /\ UNCHANGED << cmd, req, msgs, result, body, access_token, token_expiry, now, issued,
                  stored, raised, exchange >>

\* faulty variant: the expiry is written before the response is looked at
TokenResp_ExpiryFirst(t, o) ==
  /\ pc[t] = "token_post"
  /\ IF o.ok
       THEN /\ issued' = issued + 1
            /\ body' = [body EXCEPT ![t] = [access_token |-> issued + 1,
                                           ttl_kind |-> o.ttl_kind,
                                           expires_in |-> o.expires_in]]
            /\ access_token' = issued + 1
            /\ exchange' = "ok"
            /\ pc' = [pc EXCEPT ![t] = "store_expiry"]
            /\ UNCHANGED << msgs, raised, token_expiry >>
       ELSE /\ Raise(t, o.exc)
            /\ exchange' = o.exc.cls
            /\ token_expiry' = now + DEFAULT_EXPIRES_IN - SAFETY_MARGIN
            /\ UNCHANGED << issued, body, access_token >>
  /\ UNCHANGED << cmd, req, calls, result, ret, now, stored >>

\* the identity endpoint answers: on success the token is stored
\* (self._access_token = body["access_token"]), on failure the exception
\* propagates to the handler
TokenResp(t, o) ==
  /\ pc[t] = "token_post"
  /\ IF o.ok
       THEN /\ issued' = issued + 1
            /\ body' = [body EXCEPT ![t] = [access_token |-> issued + 1,
                                           ttl_kind |-> o.ttl_kind,
                                           expires_in |-> o.expires_in]]
            /\ access_token' = issued + 1
            /\ exchange' = "ok"
            /\ pc' = [pc EXCEPT ![t] = "store_expiry"]
            /\ UNCHANGED << msgs, raised >>
       ELSE /\ Raise(t, o.exc)
            /\ exchange' = o.exc.cls
            /\ UNCHANGED << issued, body, access_token >>
  /\ UNCHANGED << cmd, req, calls, result, ret, token_expiry, now, stored >>

\* self._token_expiry = time.time() + body.get("expires_in", 3600) - 60 and
\* return self._access_token; the design API request goes out.  A
\* non-numeric expires_in raises TypeError in the addition.
StoreExpiry(t) ==
  /\ pc[t] = "store_expiry"
  /\ IF body[t].ttl_kind = "bad"
       THEN /\ Raise(t, OtherError)
            /\ UNCHANGED << token_expiry, ret, calls, stored >>
       ELSE /\ token_expiry' = NewExpiry(body[t])
            /\ ret' = [ret EXCEPT ![t] = [tok |-> access_token, at |-> now, cached |-> FALSE]]
            /\ calls' = [calls EXCEPT ![t].api = @ + 1]
            /\ stored' = [tok |-> body[t].access_token, at |-> now, ttl |-> ExpiresIn(body[t])]
            /\ pc' = [pc EXCEPT ![t] = "api_post"]
            /\ UNCHANGED << msgs, raised >>
  /\ body' = [body EXCEPT ![t] = NoBody]
  /\ UNCHANGED << cmd, req, result, access_token, now, issued, exchange >>

\* the design API answers: the result is rendered and sent to the channel,
\* or the exception reaches the except clauses
ApiResp(t, o) ==
  /\ pc[t] = "api_post"
  /\ IF o.ok
       THEN /\ result' = [result EXCEPT ![t] = o.data]
            /\ msgs' = [msgs EXCEPT ![t] = Append(@, ResultMsg(Render(req[t].op, o.data)))]
            /\ pc' = [pc EXCEPT ![t] = "done"]
            /\ UNCHANGED raised
       ELSE /\ Raise(t, o.exc)
            /\ UNCHANGED result
  /\ ret' = [ret EXCEPT ![t] = NoRet]
  /\ UNCHANGED << cmd, req, calls, body, access_token, token_expiry, now, issued, stored,
                  exchange >>

\* the handler returns; the thread is free for the next command
Finish(t) ==
  /\ pc[t] = "done"
  /\ pc' = [pc EXCEPT ![t] = "idle"]
  /\ cmd' = [cmd EXCEPT ![t] = << >>]
  /\ req' = [req EXCEPT ![t] = NoReq]
  /\ msgs' = [msgs EXCEPT ![t] = << >>]
  /\ calls' = [calls EXCEPT ![t] = NoCalls]
  /\ result' = [result EXCEPT ![t] = NoPayload]
  /\ body' = [body EXCEPT ![t] = NoBody]
  /\ ret' = [ret EXCEPT ![t] = NoRet]
  /\ raised' = [raised EXCEPT ![t] = NoExc]
  /\ UNCHANGED << access_token, token_expiry, now, issued, stored, exchange >>

\* time passes
Tick ==
  /\ now < StartTime + MaxTicks
  /\ now' = now + 1
  /\ UNCHANGED << pc, cmd, req, msgs, calls, result, body, ret, access_token,
                  token_expiry, issued, stored, raised, exchange >>

(***************************************************************************)
(* Specifications                                                          *)
(***************************************************************************)
\* the handling of commands by `threads`
Handle(threads, texts, tokenOutcomes, apiOutcomes) ==
  \/ \E t \in threads, raw \in texts : Start(t, raw)
  \/ \E t \in threads : CheckCache(t)
  \/ \E t \in threads, o \in tokenOutcomes : TokenResp(t, o)
  \/ \E t \in threads : StoreExpiry(t)
  \/ \E t \in threads, o \in apiOutcomes : ApiResp(t, o)

SmallPayloads == Payloads({ "list" }, 1)

\* commands handled concurrently by the transport's threads
Next ==
  \/ Handle(AllThreads, Texts, TokenOutcomes, ApiOutcomes(SmallPayloads))
  \/ \E t \in AllThreads : Finish(t)
  \/ Tick

Spec == Init /\ [][Next]_vars

\* a single thread of control
SeqNext ==
  \/ Handle(SeqThreads, Texts, TokenOutcomes, ApiOutcomes(SmallPayloads))
  \/ \E t \in SeqThreads : Finish(t)
  \/ Tick

SeqSpec == Init /\ [][SeqNext]_vars

\* one command of the texts that probe the parser, handled from the start state
ParseNext == Handle(SeqThreads, ParseTexts, TokenOutcomes, ApiOutcomes(SmallPayloads))

ParseSpec == Init /\ [][ParseNext]_vars

\* one accepted command, answered by the payloads that probe the renderers
RenderNext ==
  Handle(SeqThreads, RenderTexts, TokenOutcomes, ApiOutcomes(Payloads(Shapes, MaxRecords)))

RenderSpec == Init /\ [][RenderNext]_vars

\* one accepted `check` command, answered by the payloads that probe the
\* verdict
VerdictNext ==
  Handle(SeqThreads, VerdictTexts, TokenOutcomes, ApiOutcomes(ScorePayloads))

VerdictSpec == Init /\ [][VerdictNext]_vars

\* one accepted command whose token exchange or design API request may be
\* refused with the responses that probe the HTTPError clause
HttpNext ==
  Handle(SeqThreads, RenderTexts, TokenOutcomes \cup TokenRefusals(Responses),
         ApiOutcomes(SmallPayloads) \cup ApiRefusals(Responses))

HttpSpec == Init /\ [][HttpNext]_vars

\* one command of the texts that probe the dispatch
DispatchNext ==
  Handle(SeqThreads, DispatchTexts, TokenOutcomes, ApiOutcomes(SmallPayloads))

DispatchSpec == Init /\ [][DispatchNext]_vars

(***************************************************************************)
(* Properties                                                              *)
(***************************************************************************)
LocalKinds == { "help", "error_unknown", "error_missing", "error_length", "error_format" }

FailureKinds == { "error_http", "error_conn", "error_unexpected" }

PrivateKinds == LocalKinds \cup FailureKinds

BroadcastKinds == { "progress", "result" }

InFlight == { "get_token", "token_post", "store_expiry", "api_post" }

\* the next step of the handling thread t is in
HandlerStep(t) ==
  \/ CheckCache(t)
  \/ \E o \in TokenOutcomes : TokenResp(t, o)
  \/ StoreExpiry(t)
  \/ \E o \in ApiOutcomes(SmallPayloads) : ApiResp(t, o)

\* C1 as stated: on every branch a finished handling has emitted exactly one
\* outbound message (one respond call).
C1_ExactlyOneMessage ==
  \A t \in AllThreads : pc[t] = "done" => Len(msgs[t]) = 1

\* C1 as amended: a finished handling has emitted exactly one message on the
\* branches that make no remote call (help or empty text, unknown subcommand,
\* missing argument, validation failure) and exactly two on the branches that
\* do: the in-progress message, then the result or one error message.  A
\* handling that has not finished has emitted the first message only and has a
\* step to take.
C1_MessagesPerHandling ==
  \A t \in AllThreads :
    /\ pc[t] = "done" =>
         /\ Len(msgs[t]) = IF PlanOf[cmd[t]].remote THEN 2 ELSE 1
         /\ msgs[t][1].kind \in LocalKinds \cup { "progress" }
         /\ Len(msgs[t]) = 2 =>
              /\ msgs[t][1].kind = "progress"
              /\ msgs[t][2].kind \in FailureKinds \cup { "result" }
    /\ pc[t] \in InFlight =>
         /\ Len(msgs[t]) = 1
         /\ msgs[t][1].kind = "progress"
         /\ ENABLED HandlerStep(t)
    /\ pc[t] = "idle" => msgs[t] = << >>

\* C1 witness: a handling that made the remote call has finished with the
\* in-progress message followed by the result.
C1_Witness ==
  \E t \in AllThreads :
    /\ pc[t] = "done"
    /\ Len(msgs[t]) = 2
    /\ msgs[t][1].kind = "progress"
    /\ msgs[t][2].kind = "result"

\* C2: a handling whose first message is help, the unknown-subcommand error,
\* the missing-argument error or a validation error has issued no network
\* call, to the identity endpoint or to the design API, and has returned.
C2_NoRemoteCallOnLocalBranch ==
  \A t \in AllThreads :
    (pc[t] # "idle" /\ (msgs[t][1].kind \in LocalKinds \/ ~PlanOf[cmd[t]].remote)) =>
      /\ calls[t] = NoCalls
      /\ pc[t] = "done"
      /\ ret[t] = NoRet

\* C2 witness: a design command with 22 bases has been answered with the
\* length error.
C2_Witness ==
  \E t \in AllThreads :
    /\ pc[t] = "done"
    /\ cmd[t] = W_design \o Sp \o Rep("A", MIN_DESIGN_LEN - 1)
    /\ msgs[t][1].kind = "error_length"
    /\ calls[t] = NoCalls

\* C3: every help message and every error message is private to the requester
\* (ephemeral), every in-progress and every result message is a channel
\* broadcast (in_channel).
C3_Visibility ==
  \A t \in AllThreads :
    \A i \in 1..Len(msgs[t]) :
      /\ msgs[t][i].kind \in PrivateKinds \cup BroadcastKinds
      /\ msgs[t][i].kind \in PrivateKinds => msgs[t][i].vis = "ephemeral"
      /\ msgs[t][i].kind \in BroadcastKinds => msgs[t][i].vis = "in_channel"

\* C3 witness: a handling has broadcast the in-progress message and then
\* answered the remote HTTP failure privately.
C3_Witness ==
  \E t \in AllThreads :
    /\ pc[t] = "done"
    /\ Len(msgs[t]) = 2
    /\ msgs[t][1] = ProgressMsg(msgs[t][1].got)
    /\ msgs[t][2].kind = "error_http"
    /\ msgs[t][2].vis = "ephemeral"

\* C4 as stated: with commands handled concurrently, at most one token
\* exchange with the identity endpoint is in flight at a time.
C4_OneExchangeInFlight ==
  Cardinality({ t \in AllThreads : pc[t] = "token_post" }) <= 1

\* the time from which the token last stored is no longer to be reused:
\* the time it was stored + the TTL it came with - the safety margin
StoredDeadline == stored.at + stored.ttl - SAFETY_MARGIN

\* C5 as stated: whatever the server's TTL, no credential is returned to a
\* caller at a time past its issue time + TTL - 60.
C5_NeverReturnedPastMargin ==
  \A t \in AllThreads :
    (ret[t].tok # NoToken /\ ret[t].tok = stored.tok) => ~(ret[t].at > StoredDeadline)

\* C5 as amended: in a single thread of control a credential is returned from
\* the cache only at a time before its store time + TTL - 60; any other
\* credential returned is the one fetched by that very call, returned at the
\* time it was stored, whatever its TTL (with a TTL of 60 or less it is
\* returned once and never reused).
C5_CachedOnlyBeforeMargin ==
  \A t \in AllThreads :
    ret[t].tok # NoToken =>
      /\ ret[t].tok = stored.tok
      /\ ret[t].cached => ret[t].at < StoredDeadline
      /\ ~ret[t].cached => ret[t].at = stored.at /\ calls[t].token = 1

\* C5 witness: a credential has been returned from the cache.
C5_Witness ==
  \E t \in AllThreads :
    /\ ret[t].tok # NoToken
    /\ ret[t].cached
    /\ pc[t] = "api_post"

\* A token request inside the validity window: no exchange, same token.
C6_ReuseStep(t) ==
  (/\ pc[t] = "get_token" /\ pc'[t] # "get_token"
   /\ stored.tok # NoToken /\ access_token = stored.tok
   /\ now < StoredDeadline) =>
     /\ pc'[t] = "api_post"
     /\ calls'[t].token = 0
     /\ ret'[t].tok = access_token
     /\ ret'[t].cached
     /\ access_token' = access_token
     /\ token_expiry' = token_expiry
     /\ issued' = issued

\* A token request with an empty or expired cache: one exchange.
C6_RefreshStep(t) ==
  (/\ pc[t] = "get_token" /\ pc'[t] # "get_token"
   /\ (access_token = NoToken \/ (access_token = stored.tok /\ now >= StoredDeadline))) =>
     /\ pc'[t] = "token_post"
     /\ calls'[t].token = 1
     /\ calls'[t].api = 0

\* A freshly fetched token has replaced the cached token and expiry.
C6_Replaced(t) ==
  (ret[t].tok # NoToken /\ ~ret[t].cached) =>
     /\ calls[t].token = 1
     /\ ret[t].tok = issued
     /\ access_token = issued
     /\ stored.tok = issued
     /\ token_expiry = StoredDeadline

\* C6: in a single thread of control, a token request made while now < store
\* time + TTL - 60 issues no network call and returns the cached token,
\* leaving token and expiry unchanged; a request made with an empty cache or
\* at or after that time issues exactly one POST to the identity endpoint, and
\* once the exchange has succeeded the cache holds the new token and the
\* expiry store time + TTL - 60.
C6_TokenReuse ==
  /\ [](\A t \in SeqThreads : C6_Replaced(t) /\ calls[t].token <= 1)
  /\ [][\A t \in SeqThreads : C6_ReuseStep(t) /\ C6_RefreshStep(t)]_vars

\* C6 witness: after a tick of the clock a second exchange has replaced the
\* cached token.
C6_Witness ==
  \E t \in SeqThreads :
    /\ ret[t].tok = 2
    /\ ~ret[t].cached
    /\ access_token = 2
    /\ stored.at > StartTime

\* the handler accepted the command and went on to the remote call op
Accepted(t, op) ==
  /\ msgs[t][1].kind = "progress"
  /\ req[t].op = op

\* the handler answered with the validation error `kind`, made no network
\* call and returned
Rejected(t, kind) ==
  /\ msgs[t] = << ErrorMsg(kind, msgs[t][1].got) >>
  /\ pc[t] = "done"
  /\ calls[t] = NoCalls

LowerBases == { "a", "c", "g", "t" }

\* the commands `check <sequence>` with a sequence of one word
C7Texts == { w \o Sp \o q : w \in { W_check, Upper(W_check) }, q \in CheckSeqs }

\* the sequence of such a command
C7Arg(raw) == SubSeq(raw, Len(W_check) + 2, Len(raw))

\* C7 as stated: `check <sequence>` is accepted for every 20-character
\* string over {A,C,G,T} and rejected with the format error, without a remote
\* call, for every other sequence, lowercase letters included.
C7_CheckUppercaseOnly ==
  \A t \in SeqThreads :
    (pc[t] # "idle" /\ cmd[t] \in C7Texts) =>
      LET q == C7Arg(cmd[t])
      IN  IF Len(q) = CHECK_LEN /\ \A i \in 1..Len(q) : q[i] \in Bases
            THEN Accepted(t, "check")
            ELSE Rejected(t, "error_format")

\* C7 as amended: `check <sequence>` is accepted for every 20-character
\* string over {A,C,G,T} in either letter case, the sequence sent on being
\* its upper-cased form, and rejected with the format error, without a remote
\* call, for every sequence of another length and every sequence with a
\* character other than a, c, g, t in either case (N and other symbols).
C7_CheckEitherCase ==
  \A t \in SeqThreads :
    (pc[t] # "idle" /\ cmd[t] \in C7Texts) =>
      LET q == C7Arg(cmd[t])
      IN  IF Len(q) = CHECK_LEN /\ \A i \in 1..Len(q) : q[i] \in Bases \cup LowerBases
            THEN /\ Accepted(t, "check")
                 /\ req[t].args = [sequence |-> Upper(q), species |-> W_human]
            ELSE /\ Rejected(t, "error_format")
                 /\ msgs[t][1].got = Len(q)

\* C7 witness: a 20-character sequence with a lowercase base has been
\* accepted.
C7_Witness ==
  \E t \in SeqThreads :
    /\ pc[t] # "idle"
    /\ cmd[t] \in C7Texts
    /\ \E i \in 1..Len(C7Arg(cmd[t])) : C7Arg(cmd[t])[i] \in LowerBases
    /\ Accepted(t, "check")

\* the commands `check <20 bases> <token>`: text, bases, token
C8Cases ==
  { << W_check \o Sp \o Rep(c, CHECK_LEN) \o sep \o tok, Rep(c, CHECK_LEN), tok >> :
      c \in { "A", "t" }, sep \in { Sp, Tab },
      tok \in { W_human, W_mouse, W_rat, W_zebrafish, W_celegans,
                Upper(W_mouse), << "R", "a", "t" >>, W_xenopus } }

\* C8 as stated: a trailing token that names a supported species in any
\* letter case is the species and the sequence is the 20 bases; a trailing
\* token that names none is left in the sequence, so that the command is
\* rejected with the format error and no remote call is made.
C8_UnsupportedTokenRejected ==
  \A t \in SeqThreads :
    pc[t] # "idle" =>
      \A e \in C8Cases :
        cmd[t] = e[1] =>
          IF IsSupportedSpecies(Lower(e[3]))
            THEN /\ Accepted(t, "check")
                 /\ req[t].args = [sequence |-> Upper(e[2]), species |-> Lower(e[3])]
            ELSE Rejected(t, "error_format")

\* C8 as amended: a trailing token that names a supported species in any
\* letter case is the species and the sequence is the 20 bases; a trailing
\* token that names none is dropped: the species is human, the sequence is
\* the 20 bases alone, the command is accepted and the remote call is made.
C8_UnsupportedTokenDropped ==
  \A t \in SeqThreads :
    pc[t] # "idle" =>
      \A e \in C8Cases :
        cmd[t] = e[1] =>
          /\ Accepted(t, "check")
          /\ req[t].args =
               [sequence |-> Upper(e[2]),
                species  |-> IF IsSupportedSpecies(Lower(e[3])) THEN Lower(e[3]) ELSE W_human]
          /\ pc[t] = "done" => calls[t].token + calls[t].api >= 1

\* C8 witness: `check <20 bases> xenopus` has been accepted and its remote
\* call has been answered.
C8_Witness ==
  \E t \in SeqThreads :
    /\ cmd[t] = W_check \o Sp \o Rep("A", CHECK_LEN) \o Sp \o W_xenopus
    /\ pc[t] = "done"
    /\ req[t].args = [sequence |-> Rep("A", CHECK_LEN), species |-> W_human]
    /\ calls[t].api = 1
    /\ msgs[t][2].kind = "result"

\* the commands `design <sequence>[ species]` with n bases, bare or under a
\* header line: text, n
C9SeqsOf(n) ==
  { Rep("A", n),
    << ">", "t" >> \o NL \o Rep("C", n),
    << ">", "t", " ", "x", " ", "y" >> \o NL \o Rep("G", n) }

C9Cases ==
  UNION { { << W_design \o Sp \o q \o suffix, n >> :
              q \in C9SeqsOf(n), suffix \in { << >>, Sp \o W_mouse, Sp \o Upper(W_rat) } } :
          n \in DesignLens }

\* C9 as stated: `design <sequence>[ species]` is accepted exactly when the
\* number of bases outside the header line is in 23..1000, and is rejected
\* with the length error otherwise, for a bare sequence and for a sequence
\* under a header line alike.
C9_DesignLengthByBaseCount ==
  \A t \in SeqThreads :
    pc[t] # "idle" =>
      \A e \in C9Cases :
        cmd[t] = e[1] =>
          IF MIN_DESIGN_LEN <= e[2] /\ e[2] <= MAX_DESIGN_LEN
            THEN Accepted(t, "design")
            ELSE Rejected(t, "error_length")

\* the entry blocks of a message
Entries(blocks) == SelectSeq(blocks, LAMBDA b : b.role = "entry")

\* C10 as stated: each renderer renders a payload of n records as exactly
\* min(n, 10) entry blocks, those of the first min(n, 10) records in their
\* order, between the header blocks and the footer blocks.
C10_EntriesCapped ==
  \A t \in SeqThreads :
    (/\ pc[t] = "done" /\ Len(msgs[t]) = 2 /\ msgs[t][2].kind = "result"
     /\ result[t].shape \in { "list", "Results" }) =>
      LET recs    == result[t].records
          blocks  == msgs[t][2].blocks
          entries == Entries(blocks)
          m       == IF Len(recs) < MAX_ENTRIES THEN Len(recs) ELSE MAX_ENTRIES
      IN  /\ Len(entries) = m
          /\ \A i \in 1..m : entries[i].rec = recs[i]
          /\ m > 0 => blocks = HeadBlocks \o entries \o FootBlocks

\* the score a result record carries for the capitalised key, else for the
\* lower-case key, else none
Carried(res, Key, key) ==
  IF Key \in DOMAIN res THEN res[Key]
  ELSE IF key \in DOMAIN res THEN res[key]
  ELSE [kind |-> "absent", val |-> 0]

Numeric(v) == v.kind \in { "int", "float" }

\* the records of the result a handling was answered with
ResultRecords(t) ==
  IF result[t].shape \in { "list", "Results" } THEN result[t].records ELSE << result[t].self >>

\* C11: every rendered checker result has the verdict "recommended" if and
\* only if its on-target score is numeric and >= 60 and its off-target score
\* is numeric and >= 50; in every other case (a score below its threshold,
\* absent or non-numeric) the verdict is "proceed with caution".
C11_Verdict ==
  \A t \in SeqThreads :
    (/\ pc[t] = "done" /\ Len(msgs[t]) = 2 /\ msgs[t][2].kind = "result"
     /\ req[t].op = "check") =>
      LET recs    == ResultRecords(t)
          entries == Entries(msgs[t][2].blocks)
      IN  /\ Len(entries) = Len(recs)
          /\ \A i \in 1..Len(recs) :
                LET on  == Carried(recs[i], "OnTargetScore", "onTargetScore")
                    off == Carried(recs[i], "OffTargetScore", "offTargetScore")
                    good == /\ Numeric(on) /\ on.val >= 60
                            /\ Numeric(off) /\ off.val >= 50
                IN  /\ entries[i].verdict \in { "recommended", "caution" }
                    /\ entries[i].verdict = "recommended" <=> good

\* C11 witness: a result with the scores (60, 50) has been rendered as
\* recommended.
C11_Witness ==
  \E t \in SeqThreads :
    /\ pc[t] = "done" /\ Len(msgs[t]) = 2 /\ msgs[t][2].kind = "result"
    /\ req[t].op = "check"
    /\ \E i \in 1..Len(Entries(msgs[t][2].blocks)) :
         LET e == Entries(msgs[t][2].blocks)[i]
         IN  /\ e.verdict = "recommended"
             /\ e.on_score.val = 60 /\ e.off_score.val = 50

\* C12 as stated: whenever a remote call made for a command fails with a
\* non-success HTTP status, the handler emits a private message that shows
\* the status code and an excerpt of the response body of at most 200
\* characters, whatever the length and the format of the body.
C12_HttpErrorExcerpt ==
  \A t \in SeqThreads :
    (pc[t] = "done" /\ raised[t].cls = "HTTPError") =>
      LET m == msgs[t][Len(msgs[t])]
      IN  /\ m.kind = "error_http"
          /\ m.vis = "ephemeral"
          /\ Len(m.blocks) = 1
          /\ m.blocks[1].status = raised[t].response.status_code
          /\ Len(m.blocks[1].excerpt) <= 200

\* the first whitespace-delimited token of a command text in lower case, or
\* the empty word when the text is blank
FirstToken(raw) ==
  LET b == FirstNonSpaceFrom(raw, 1)
  IN  IF b > Len(raw) THEN << >>
      ELSE Lower(SubSeq(raw, b, FirstSpaceFrom(raw, b) - 1))

\* C13 as stated: the command is dispatched on its first token,
\* case-insensitively: an empty text and a text whose first token is `help`,
\* with or without further text, are answered with the help; the
\* unknown-subcommand error is produced only when the first token is none of
\* design, check, predesign, help.
C13_DispatchOnFirstToken ==
  \A t \in SeqThreads :
    pc[t] # "idle" =>
      LET first == FirstToken(cmd[t])
          kind  == msgs[t][1].kind
      IN  /\ first \in { << >>, W_help } => kind = "help"
          /\ kind = "error_unknown" =>
               first \notin { W_design, W_check, W_predesign, W_help }
          /\ first = W_design => kind \in { "error_missing", "error_length", "progress" }
          /\ first = W_check => kind \in { "error_missing", "error_format", "progress" }
          /\ first = W_predesign => kind \in { "error_missing", "progress" }

\* the ways the token exchange fails: endpoint unreachable, non-success status
ExchangeFailures == { "ConnectionError", "HTTPError" }

\* a failed exchange leaves the cached token and its expiry as they were
C14_FailedStep(t) ==
  (/\ pc[t] = "token_post" /\ pc'[t] = "done"
   /\ raised'[t].cls \in ExchangeFailures) =>
     /\ access_token' = access_token
     /\ token_expiry' = token_expiry

\* the token request that follows a failed exchange attempts the exchange
\* again and returns nothing from the cache
C14_RetryStep(t) ==
  (/\ exchange \in ExchangeFailures
   /\ pc[t] = "get_token" /\ pc'[t] # "get_token") =>
     /\ pc'[t] = "token_post"
     /\ calls'[t].token = calls[t].token + 1
     /\ ret'[t].tok = NoToken

\* C14: in a single thread of control, a token exchange that fails (identity
\* endpoint unreachable or non-success status) leaves the cached token and
\* its expiry as they were before the call; the cache is then still empty or
\* expired, no credential is returned from it, and the next token request
\* attempts the exchange again.
C14_FailedExchangeKeepsCache ==
  /\ [][\A t \in SeqThreads : C14_FailedStep(t) /\ C14_RetryStep(t)]_vars
  /\ [](exchange \in ExchangeFailures =>
          /\ (access_token = NoToken \/ now >= token_expiry)
          /\ \A t \in SeqThreads : ret[t].tok = NoToken)

\* C14 witness: with an expired token in the cache the exchange has failed,
\* and the next command's token request has issued the exchange again.
C14_Witness ==
  \E t \in SeqThreads :
    /\ exchange \in ExchangeFailures
    /\ access_token # NoToken
    /\ stored.tok = access_token
    /\ pc[t] = "token_post"
    /\ calls[t].token = 1

=============================================================================
